---------------------------- MODULE Spec2Model ----------------------------
(***************************************************************************)
(* A model of burn-pinn-tf: the physics-informed loss of a tuning fork     *)
(* (src/src/physics.rs), the dataset, batcher and training run             *)
(* (src/src/train.rs) and the inference run (src/src/infer.rs).            *)
(*                                                                         *)
(* Numbers.  The program computes in f32; the model computes in fixed      *)
(* point, every quantity an integer count of a unit stated where it is     *)
(* defined, every operation rounding down:                                 *)
(*   lengths                      1 mm                                     *)
(*   frequencies                  1 Hz                                     *)
(*   penalties (squared lengths)  1 mm^2 = 1e-6 m^2                        *)
(*   penalty weights              1e-2                                     *)
(*   losses                       a pair [whole, frac]: whole in Hz^2      *)
(*                                (that is, 1.0) and frac in 1e-8          *)
(***************************************************************************)
EXTENDS Integers, Sequences, FiniteSets, TLC

VARIABLES
    \* physics.rs, one call of tuning_fork_loss
    predicted_dims,   \* the batch x 5 tensor of dimensions
    target_freqs,     \* the batch x 1 tensor of frequencies
    loss_out,         \* the returned scalar, NoLoss before the call
    loss_pc,          \* "input" before the call, "done" after
    \* train.rs, the dataset and the batcher called on their own
    get_index,        \* per dataset, the index of the last get, -1 before
    get_result,       \* per dataset, what the last get returned
    items,            \* the Vec<f32> collected for the next batch
    batch_in,         \* the Vec<f32> handed to the last call of batch
    batch_out,        \* the tensor the last call of batch returned
    \* train.rs, one training run
    config,           \* TrainingConfig: num_epochs, batch_size
    phase,            \* Idle, Training, Validating, Fitted, Finished, Failed
    epoch,            \* the epoch in progress, from 1
    next_index,       \* per data loader, the next dataset index to get
    buffer,           \* per data loader, the items of the batch being assembled
    queue,            \* per data loader, the batches assembled and not yet consumed
    params,           \* the model's parameter set, as its version
    train_output,     \* the TrainOutput awaiting the optimizer, or NoOutput
    valid_output,     \* the RegressionOutput of the last validation step
    epochs_trained,   \* epochs whose training phase has completed
    epochs_validated, \* epochs whose validation phase has completed
    checkpoint,       \* the record at ./artifacts/model, or NoRecord
    writes,           \* successful writes of the checkpoint by this run
    error,            \* the panic message of the run, "" if none
    \* infer.rs, one inference run
    infer_pc,         \* "start", "done" or "failed"
    infer_dims,       \* the dimensions reported, NoDims if none
    infer_error       \* the panic message, "" if none

loss_vars == <<predicted_dims, target_freqs, loss_out, loss_pc>>

data_vars == <<get_index, get_result, items, batch_in, batch_out>>

loader_vars == <<next_index, buffer, queue>>

train_vars ==
    <<config, phase, epoch, next_index, buffer, queue, params, train_output,
      valid_output, epochs_trained, epochs_validated, checkpoint, writes, error>>

infer_vars == <<infer_pc, infer_dims, infer_error>>

vars == <<loss_vars, data_vars, train_vars, infer_vars>>

-----------------------------------------------------------------------------
(* constants.rs *)

\* Young's modulus, 193.0e9 Pa, in GPa.
YOUNGS_MODULUS == 193
\* Density, 8000 kg/m^3, in units of 100 kg/m^3.
DENSITY == 80
\* Vibration mode coefficient, 3.5160, in units of 1e-4.
K_FACTOR == 35160
\* Penalty weights 0.5, 10.0 and 5.0, in units of 1e-2.
PENALTY_WEIGHT_RATIO == 50
PENALTY_WEIGHT_RANGE == 1000
PENALTY_WEIGHT_OTHER == 500

HANDLE_LENGTH_IDX == 0
HANDLE_DIAMETER_IDX == 1
PRONG_LENGTH_IDX == 2
PRONG_DIAMETER_IDX == 3
PRONG_GAP_IDX == 4

-----------------------------------------------------------------------------
(* Fixed-point helpers *)

\* A loss value: whole + frac / LossUnit, with 0 <= frac < LossUnit.
LossUnit == 10 ^ 8

Norm(w, f) == [whole |-> w + (f \div LossUnit), frac |-> f % LossUnit]

LossAdd(a, b) == Norm(a.whole + b.whole, a.frac + b.frac)

\* The quotient a / n of a loss value by a batch size, rounded down.
LossDiv(a, n) ==
    Norm(a.whole \div n, (((a.whole % n) * LossUnit) + a.frac) \div n)

ZeroLoss == [whole |-> 0, frac |-> 0]

NoLoss == [whole |-> -1, frac |-> 0]

RECURSIVE SumLoss(_)
SumLoss(s) == IF s = <<>> THEN ZeroLoss ELSE LossAdd(Head(s), SumLoss(Tail(s)))

\* floor(n * 2^bits / d) by binary long division (d > 0, 2 * d within range).
RECURSIVE FracDiv(_, _, _)
FracDiv(n, d, bits) ==
    IF bits = 0 THEN n \div d
    ELSE LET q == n \div d
             r == n % d
         IN  (q * (2 ^ bits)) + FracDiv(2 * r, d, bits - 1)

\* floor(sqrt(x)) by bisection on [lo, hi], lo^2 <= x < (hi + 1)^2.
RECURSIVE SqrtBetween(_, _, _)
SqrtBetween(x, lo, hi) ==
    IF lo >= hi THEN lo
    ELSE LET mid == (lo + hi + 1) \div 2
         IN  IF mid * mid <= x THEN SqrtBetween(x, mid, hi)
             ELSE SqrtBetween(x, lo, mid - 1)

\* 46340 is the largest root of a 32-bit value.
ISqrt(x) == SqrtBetween(x, 0, 46340)

-----------------------------------------------------------------------------
(* physics.rs: tuning_fork_loss, tensor by tensor.  A batch x 1 tensor is a *)
(* sequence of batch scalars.                                               *)

\* dims.slice([0..batch_size, idx..idx + 1])
Slice(dims, idx) == [i \in 1..Len(dims) |-> dims[i][idx + 1]]

handle_length(dims) == Slice(dims, HANDLE_LENGTH_IDX)
handle_diameter(dims) == Slice(dims, HANDLE_DIAMETER_IDX)
prong_length(dims) == Slice(dims, PRONG_LENGTH_IDX)
prong_diameter(dims) == Slice(dims, PRONG_DIAMETER_IDX)
prong_gap(dims) == Slice(dims, PRONG_GAP_IDX)

relu(x) == IF x > 0 THEN x ELSE 0

\* pi / 4 in units of 1e-4, pi / 64 in units of 1e-3, 2 pi in units of 1e-4.
PiOver4 == 7854
PiOver64 == 49
TwoPi == 62832

\* 1e-8, in the unit of density_mass.
epsilon == 1

\* Fraction bits kept of stiffness / (density_mass + epsilon).
RatioBits == 2 * 12

\* in 1e-4 mm^2
area(dims) ==
    [i \in 1..Len(dims) |-> (prong_diameter(dims)[i] ^ 2) * PiOver4]

\* in 1e-3 mm^4
moment_of_inertia(dims) ==
    [i \in 1..Len(dims) |-> (prong_diameter(dims)[i] ^ 4) * PiOver64]

\* E * I in 1e-6 N m^2
stiffness(dims) ==
    [i \in 1..Len(dims) |-> moment_of_inertia(dims)[i] * YOUNGS_MODULUS]

\* rho * A in 1e-8 kg/m
density_mass(dims) ==
    [i \in 1..Len(dims) |-> area(dims)[i] * DENSITY]

\* sqrt(stiffness / (density_mass + epsilon)), in 1e-3: the quotient is
\* 100 * S / M, so its root is 10 * sqrt(S / M), and sqrt(S / M) is taken
\* with RatioBits / 2 fraction bits.
sqrt_term(dims) ==
    [i \in 1..Len(dims) |->
        (ISqrt(FracDiv(stiffness(dims)[i],
                       density_mass(dims)[i] + epsilon, RatioBits)) * 10000)
            \div (2 ^ (RatioBits \div 2))]

\* prong_length^2 in mm^2
length_term(dims) == [i \in 1..Len(dims) |-> prong_length(dims)[i] ^ 2]

\* K_FACTOR / (2.0 * pi), in 1e-4
KOverTwoPi == (K_FACTOR * 10000) \div TwoPi

\* sqrt_term.mul_scalar(K_FACTOR / (2 pi)) / length_term, in Hz:
\* (1e-3 * 1e-4) / (1e-6 m^2) = 1e-1.
predicted_freqs(dims) ==
    [i \in 1..Len(dims) |->
        (sqrt_term(dims)[i] * KOverTwoPi) \div (10 * length_term(dims)[i])]

\* frequency_loss with the powf_scalar(2.0) left out.
frequency_loss_unsquared(dims, targets) ==
    [i \in 1..Len(dims) |-> predicted_freqs(dims)[i] - targets[i]]

\* (predicted_freqs - target_freqs)^2, in Hz^2
frequency_loss(dims, targets) ==
    [i \in 1..Len(dims) |-> (predicted_freqs(dims)[i] - targets[i]) ^ 2]

\* ratio_penalty with the operands of the subtraction exchanged.
ratio_penalty_reversed(dims) ==
    [i \in 1..Len(dims) |->
        relu(handle_length(dims)[i] - prong_length(dims)[i]) ^ 2]

\* relu(prong_length - handle_length)^2
ratio_penalty(dims) ==
    [i \in 1..Len(dims) |->
        relu(prong_length(dims)[i] - handle_length(dims)[i]) ^ 2]

\* range_penalty with the .neg() of the lower hinge left out.
range_penalty_no_neg(x, min_val, max_val) ==
    (relu(x - min_val) ^ 2) + (relu(x - max_val) ^ 2)

\* relu((x - min_val).neg())^2 + relu(x - max_val)^2
range_penalty(x, min_val, max_val) ==
    (relu(-(x - min_val)) ^ 2) + (relu(x - max_val) ^ 2)

\* The literal bounds of the five range penalties, in mm.
PRONG_DIAMETER_MIN == 2
PRONG_DIAMETER_MAX == 20
PRONG_LENGTH_MIN == 10
PRONG_LENGTH_MAX == 200
HANDLE_LENGTH_MIN == 30
HANDLE_LENGTH_MAX == 150
HANDLE_DIAMETER_MIN == 5
HANDLE_DIAMETER_MAX == 20
PRONG_GAP_MIN == 2
PRONG_GAP_MAX == 20

prong_diameter_penalty(dims) ==
    [i \in 1..Len(dims) |->
        range_penalty(prong_diameter(dims)[i],
                      PRONG_DIAMETER_MIN, PRONG_DIAMETER_MAX)]

prong_length_penalty(dims) ==
    [i \in 1..Len(dims) |->
        range_penalty(prong_length(dims)[i],
                      PRONG_LENGTH_MIN, PRONG_LENGTH_MAX)]

handle_length_penalty(dims) ==
    [i \in 1..Len(dims) |->
        range_penalty(handle_length(dims)[i],
                      HANDLE_LENGTH_MIN, HANDLE_LENGTH_MAX)]

handle_diameter_penalty(dims) ==
    [i \in 1..Len(dims) |->
        range_penalty(handle_diameter(dims)[i],
                      HANDLE_DIAMETER_MIN, HANDLE_DIAMETER_MAX)]

prong_gap_penalty(dims) ==
    [i \in 1..Len(dims) |->
        range_penalty(prong_gap(dims)[i], PRONG_GAP_MIN, PRONG_GAP_MAX)]

\* weighted_sum with the prong length penalty under the lower weight.
weighted_sum_length_other(dims, targets) ==
    [i \in 1..Len(dims) |->
        Norm(frequency_loss(dims, targets)[i],
             (ratio_penalty(dims)[i] * PENALTY_WEIGHT_RATIO)
             + (prong_diameter_penalty(dims)[i] * PENALTY_WEIGHT_RANGE)
             + ((prong_length_penalty(dims)[i] + handle_length_penalty(dims)[i]
                    + handle_diameter_penalty(dims)[i]
                    + prong_gap_penalty(dims)[i]) * PENALTY_WEIGHT_OTHER))]

\* The tensor under .mean(): one loss value per example.
weighted_sum(dims, targets) ==
    [i \in 1..Len(dims) |->
        Norm(frequency_loss(dims, targets)[i],
             (ratio_penalty(dims)[i] * PENALTY_WEIGHT_RATIO)
             + ((prong_diameter_penalty(dims)[i] + prong_length_penalty(dims)[i])
                    * PENALTY_WEIGHT_RANGE)
             + ((handle_length_penalty(dims)[i] + handle_diameter_penalty(dims)[i]
                    + prong_gap_penalty(dims)[i]) * PENALTY_WEIGHT_OTHER))]

\* Tensor::mean
mean(t) == LossDiv(SumLoss(t), Len(t))

tuning_fork_loss(dims, targets) == mean(weighted_sum(dims, targets))

-----------------------------------------------------------------------------
(* train.rs: TuningForkDataset and TuningForkBatcher *)

\* The frequencies the model draws from, in Hz: the ends of both bands and
\* one value beyond each end.
FreqGrid == {100, 200, 1800, 2000, 2100}

\* rng.gen_range(lo..=hi): any value of the inclusive range.
gen_range(lo, hi) == {f \in FreqGrid : lo <= f /\ f <= hi}

Some(x) == [some |-> TRUE, value |-> x]

\* get returning None from the declared size on, as a stored dataset does.
TuningForkDataset_get_checked(self, index) ==
    IF index < self.size
    THEN {Some(f) : f \in gen_range(self.freq_range[1], self.freq_range[2])}
    ELSE {[some |-> FALSE, value |-> 0]}

\* TuningForkDataset::get(&self, _index): the values it may return.
TuningForkDataset_get(self, index) ==
    {Some(f) : f \in gen_range(self.freq_range[1], self.freq_range[2])}

\* TuningForkDataset::len
TuningForkDataset_len(self) == self.size

\* A tensor: its shape and its elements in row-major order.
NoTensor == [shape |-> <<>>, data |-> <<>>]

\* Tensor::<B, 1>::from_floats([x], device)
from_floats(x) == [shape |-> <<1>>, data |-> <<x>>]

\* Tensor::cat(tensors, 0) of rank-1 tensors
RECURSIVE cat(_)
cat(tensors) ==
    IF Len(tensors) = 1 THEN Head(tensors)
    ELSE LET rest == cat(Tail(tensors))
         IN  [shape |-> <<Head(tensors).shape[1] + rest.shape[1]>>,
              data |-> Head(tensors).data \o rest.data]

\* Tensor::reshape(dims) to rank 2, a -1 standing for the dimension inferred
reshape(t, dims) ==
    LET rows == IF dims[1] = -1 THEN Len(t.data) \div dims[2] ELSE dims[1]
        cols == IF dims[2] = -1 THEN Len(t.data) \div dims[1] ELSE dims[2]
    IN  [shape |-> <<rows, cols>>, data |-> t.data]

\* batch collecting the items last to first.
batch_reversed(its) ==
    LET tensors == [i \in 1..Len(its) |-> from_floats(its[Len(its) + 1 - i])]
    IN  reshape(cat(tensors), <<-1, 1>>)

\* TuningForkBatcher::batch(&self, items, device)
batch(its) ==
    LET tensors == [i \in 1..Len(its) |-> from_floats(its[i])]
    IN  reshape(cat(tensors), <<-1, 1>>)

\* The element of a rank-2 tensor at row i, column j (from 0).
At(t, i, j) == t.data[(i * t.shape[2]) + j + 1]

\* The column of a batch x 1 tensor as the sequence of its scalars.
Column(t) == [i \in 1..t.shape[1] |-> At(t, i - 1, 0)]

-----------------------------------------------------------------------------
(* train.rs: TrainingConfig and the two data loaders of run *)

Splits == {"train", "valid"}

\* freq_range: (200.0, 1800.0) and freq_range: (1800.0, 2000.0)
TrainFreqRange == <<200, 1800>>
\* A validation band reaching down into the training band.
ValidFreqRangeWide == <<200, 2000>>
ValidFreqRange == <<1800, 2000>>

\* Batches per epoch: run declares size: batch_size * 100 and batch_size * 20,
\* the integration test batch_size * 2 for both.
TrainBatches == 2
ValidBatches == 1

\* Largest num_epochs and batch_size of a TrainingConfig.
MaxEpochs == 2
MaxBatchSize == 2

ConfigDomain == [num_epochs : 0..MaxEpochs, batch_size : 0..MaxBatchSize]

Dataset(cfg, s) ==
    IF s = "train"
    THEN [size |-> cfg.batch_size * TrainBatches, freq_range |-> TrainFreqRange]
    ELSE [size |-> cfg.batch_size * ValidBatches, freq_range |-> ValidFreqRange]


-----------------------------------------------------------------------------
(* The inputs tuning_fork_loss is applied to.  physics_test.rs gives the two *)
(* base vectors; every other vector replaces one coordinate of a base by a   *)
(* value below, at or above a bound.                                         *)

\* [[0.10, 0.01, 0.08, 0.005, 0.01]] of test_loss_calculation_no_penalty
NoPenaltyDims == <<100, 10, 80, 5, 10>>
\* [[0.05, 0.01, 0.08, 0.001, 0.01]] of test_loss_calculation_with_penalties
WithPenaltiesDims == <<50, 10, 80, 1, 10>>
\* [[440.0]] of both tests
TestTargetFreq == 440

Subst(v, idx, x) == [v EXCEPT ![idx + 1] = x]

NoPenaltyVariants ==
    {<<HANDLE_LENGTH_IDX, 100>>, <<HANDLE_LENGTH_IDX, 20>>,
     <<HANDLE_LENGTH_IDX, 160>>,
     <<HANDLE_DIAMETER_IDX, 4>>, <<HANDLE_DIAMETER_IDX, 21>>,
     <<PRONG_LENGTH_IDX, 120>>, <<PRONG_LENGTH_IDX, 201>>,
     <<PRONG_DIAMETER_IDX, 0>>, <<PRONG_DIAMETER_IDX, 2>>,
     <<PRONG_DIAMETER_IDX, 20>>, <<PRONG_DIAMETER_IDX, 21>>,
     <<PRONG_GAP_IDX, 1>>, <<PRONG_GAP_IDX, 21>>}

WithPenaltiesVariants ==
    {<<HANDLE_LENGTH_IDX, 50>>, <<PRONG_LENGTH_IDX, 9>>,
     <<PRONG_LENGTH_IDX, 50>>, <<PRONG_DIAMETER_IDX, 2>>}

DimsDomain ==
    {Subst(NoPenaltyDims, c[1], c[2]) : c \in NoPenaltyVariants}
    \cup {Subst(WithPenaltiesDims, c[1], c[2]) : c \in WithPenaltiesVariants}

\* The tests' target and the frequency NoPenaltyDims resonates at.
TargetDomain == {TestTargetFreq, predicted_freqs(<<NoPenaltyDims>>)[1]}

\* Largest batch handed to tuning_fork_loss.
MaxBatch == 2


-----------------------------------------------------------------------------
(* model.rs, as far as the runs see it: forward is an opaque function to     *)
(* five positive dimensions per row (softplus).                              *)

ForwardOutputs == {NoPenaltyDims, WithPenaltiesDims}

\* TuningForkPINN::forward(&self, input): the outputs it may return.
forward(p, input) == [1..input.shape[1] -> ForwardOutputs]

-----------------------------------------------------------------------------
(* train.rs: the steps and run *)

NoOutput == [loss |-> NoLoss, grads |-> -1]

NoRecord == [exists |-> FALSE, params |-> 0]

Record(p) == [exists |-> TRUE, params |-> p]

SaveFailedMsg == "Failed to save trained model"

\* Batches a data loader holds ready for the training loop.
QueueCap == 1

\* The loader of split s is iterated during its phase of the epoch.
LoaderActive(s) ==
    \/ s = "train" /\ phase = "Training"
    \/ s = "valid" /\ phase = "Validating"

LoaderExhausted(s) ==
    /\ next_index[s] = TuningForkDataset_len(Dataset(config, s))
    /\ buffer[s] = <<>>
    /\ queue[s] = <<>>

\* A data worker gets the next item of the split's dataset.
WorkerGet(s) ==
    /\ LoaderActive(s)
    /\ next_index[s] < TuningForkDataset_len(Dataset(config, s))
    /\ Len(buffer[s]) < config.batch_size
    /\ \E r \in TuningForkDataset_get(Dataset(config, s), next_index[s]) :
          buffer' = [buffer EXCEPT ![s] = Append(@, r.value)]
    /\ next_index' = [next_index EXCEPT ![s] = @ + 1]
    /\ UNCHANGED <<queue, config, phase, epoch, params, train_output,
                   valid_output, epochs_trained, epochs_validated, checkpoint,
                   writes, error>>
    /\ UNCHANGED <<loss_vars, data_vars, infer_vars>>

\* A data worker batches batch_size items and queues the tensor.
WorkerBatch(s) ==
    /\ LoaderActive(s)
    /\ buffer[s] # <<>>
    /\ Len(buffer[s]) = config.batch_size
    /\ Len(queue[s]) < QueueCap
    /\ queue' = [queue EXCEPT ![s] = Append(@, batch(buffer[s]))]
    /\ buffer' = [buffer EXCEPT ![s] = <<>>]
    /\ UNCHANGED <<next_index, config, phase, epoch, params, train_output,
                   valid_output, epochs_trained, epochs_validated, checkpoint,
                   writes, error>>
    /\ UNCHANGED <<loss_vars, data_vars, infer_vars>>

\* run up to learner.fit: nothing checks num_epochs or batch_size.  (The
\* invocations of the program are taken one after the other: no training
\* run starts once the inference run has been made.)
StartTraining ==
    /\ phase = "Idle"
    /\ infer_pc = "start"
    /\ IF config.num_epochs >= 1
       THEN phase' = "Training" /\ epoch' = 1
       ELSE phase' = "Fitted" /\ epoch' = 0
    /\ UNCHANGED <<loader_vars, config, params, train_output, valid_output,
                   epochs_trained, epochs_validated, checkpoint, writes, error>>
    /\ UNCHANGED <<loss_vars, data_vars, infer_vars>>

\* TrainStep::step entered while the output of the step before it has not
\* been applied by the optimizer.
TrainStepOverlapping ==
    /\ phase = "Training"
    /\ queue["train"] # <<>>
    /\ LET item == Head(queue["train"])
       IN  \E dims \in forward(params, item) :
              train_output' =
                  [loss |-> tuning_fork_loss(dims, Column(item)),
                   grads |-> params]
    /\ queue' = [queue EXCEPT !["train"] = Tail(@)]
    /\ UNCHANGED <<next_index, buffer, config, phase, epoch, params,
                   valid_output, epochs_trained, epochs_validated, checkpoint,
                   writes, error>>
    /\ UNCHANGED <<loss_vars, data_vars, infer_vars>>

\* TrainStep::step(&self, item): forward, loss, backward.
TrainStep ==
    /\ phase = "Training"
    /\ train_output = NoOutput
    /\ queue["train"] # <<>>
    /\ LET item == Head(queue["train"])
       IN  \E dims \in forward(params, item) :
              train_output' =
                  [loss |-> tuning_fork_loss(dims, Column(item)),
                   grads |-> params]
    /\ queue' = [queue EXCEPT !["train"] = Tail(@)]
    /\ UNCHANGED <<next_index, buffer, config, phase, epoch, params,
                   valid_output, epochs_trained, epochs_validated, checkpoint,
                   writes, error>>
    /\ UNCHANGED <<loss_vars, data_vars, infer_vars>>

\* The learner applies the gradients of the TrainOutput: one Adam step.
OptimizerStep ==
    /\ phase = "Training"
    /\ train_output # NoOutput
    /\ params' = params + 1
    /\ train_output' = NoOutput
    /\ UNCHANGED <<loader_vars, config, phase, epoch, valid_output,
                   epochs_trained, epochs_validated, checkpoint, writes, error>>
    /\ UNCHANGED <<loss_vars, data_vars, infer_vars>>

\* The training loader is exhausted: the epoch goes on to validation.
EndTrainEpoch ==
    /\ phase = "Training"
    /\ train_output = NoOutput
    /\ LoaderExhausted("train")
    /\ phase' = "Validating"
    /\ epochs_trained' = epochs_trained + 1
    /\ next_index' = [next_index EXCEPT !["valid"] = 0]
    /\ UNCHANGED <<buffer, queue, config, epoch, params, train_output,
                   valid_output, epochs_validated, checkpoint, writes, error>>
    /\ UNCHANGED <<loss_vars, data_vars, infer_vars>>

\* ValidStep::step followed by an optimizer step, as a training step is.
ValidStepUpdating ==
    /\ phase = "Validating"
    /\ queue["valid"] # <<>>
    /\ LET item == Head(queue["valid"])
       IN  \E dims \in forward(params, item) :
              valid_output' =
                  [loss |-> tuning_fork_loss(dims, Column(item)), grads |-> -1]
    /\ queue' = [queue EXCEPT !["valid"] = Tail(@)]
    /\ params' = params + 1
    /\ UNCHANGED <<next_index, buffer, config, phase, epoch,
                   train_output, epochs_trained, epochs_validated, checkpoint,
                   writes, error>>
    /\ UNCHANGED <<loss_vars, data_vars, infer_vars>>

\* ValidStep::step(&self, item): forward and loss.
ValidStep ==
    /\ phase = "Validating"
    /\ queue["valid"] # <<>>
    /\ LET item == Head(queue["valid"])
       IN  \E dims \in forward(params, item) :
              valid_output' =
                  [loss |-> tuning_fork_loss(dims, Column(item)), grads |-> -1]
    /\ queue' = [queue EXCEPT !["valid"] = Tail(@)]
    /\ UNCHANGED <<next_index, buffer, config, phase, epoch, params,
                   train_output, epochs_trained, epochs_validated, checkpoint,
                   writes, error>>
    /\ UNCHANGED <<loss_vars, data_vars, infer_vars>>

\* EndValidEpoch recording the model at the end of every epoch.
EndValidEpochRecording ==
    /\ phase = "Validating"
    /\ LoaderExhausted("valid")
    /\ epochs_validated' = epochs_validated + 1
    /\ valid_output' = NoOutput
    /\ IF epoch < config.num_epochs
       THEN phase' = "Training" /\ epoch' = epoch + 1
       ELSE phase' = "Fitted" /\ epoch' = epoch
    /\ next_index' = [next_index EXCEPT !["train"] = 0]
    /\ checkpoint' = [exists |-> TRUE, params |-> params]
    /\ writes' = writes + 1
    /\ UNCHANGED <<buffer, queue, config, params, train_output,
                   epochs_trained, error>>
    /\ UNCHANGED <<loss_vars, data_vars, infer_vars>>

\* The validation loader is exhausted: the next epoch, or fit returns.
EndValidEpoch ==
    /\ phase = "Validating"
    /\ LoaderExhausted("valid")
    /\ epochs_validated' = epochs_validated + 1
    /\ valid_output' = NoOutput
    /\ IF epoch < config.num_epochs
       THEN phase' = "Training" /\ epoch' = epoch + 1
       ELSE phase' = "Fitted" /\ epoch' = epoch
    /\ next_index' = [next_index EXCEPT !["train"] = 0]
    /\ UNCHANGED <<buffer, queue, config, params, train_output,
                   epochs_trained, checkpoint, writes, error>>
    /\ UNCHANGED <<loss_vars, data_vars, infer_vars>>

\* CompactRecorder::record(model_record, path): Ok or Err.
record(rec, ok) ==
    IF ok THEN [ok |-> TRUE, stored |-> rec]
    ELSE [ok |-> FALSE, stored |-> checkpoint]

\* run after learner.fit: into_record, record, expect.
SaveModel ==
    /\ phase = "Fitted"
    /\ \E ok \in BOOLEAN :
          LET res == record(Record(params), ok)
          IN  /\ checkpoint' = res.stored
              /\ IF res.ok
                 THEN phase' = "Finished" /\ writes' = writes + 1
                      /\ error' = error
                 ELSE phase' = "Failed" /\ writes' = writes
                      /\ error' = SaveFailedMsg
    /\ UNCHANGED <<loader_vars, config, epoch, params, train_output,
                   valid_output, epochs_trained, epochs_validated>>
    /\ UNCHANGED <<loss_vars, data_vars, infer_vars>>

-----------------------------------------------------------------------------
(* infer.rs: run *)

NoDims == <<>>

\* The message of expect, without the quotes around the command.
LoadFailedMsg ==
    "Failed to load model record. Run training first via cargo run --release -- train"

\* load falling back on a freshly initialised model when no record exists.
load_or_default(ckpt) ==
    IF ckpt.exists THEN [ok |-> TRUE, rec |-> ckpt]
    ELSE [ok |-> TRUE, rec |-> [exists |-> TRUE, params |-> 0]]

\* CompactRecorder::load(model_path, device): Ok(record) or Err.
load(ckpt) ==
    IF ckpt.exists THEN [ok |-> TRUE, rec |-> ckpt]
    ELSE [ok |-> FALSE, rec |-> NoRecord]

\* infer::run(freq, device), an invocation apart from a training run.
InferRun(freq) ==
    /\ infer_pc = "start"
    /\ phase \in {"Idle", "Finished", "Failed"}
    /\ LET res == load(checkpoint)
       IN  IF res.ok
           THEN /\ \E dims \in forward(res.rec.params, batch(<<freq>>)) :
                      infer_dims' = dims[1]
                /\ infer_pc' = "done"
                /\ infer_error' = infer_error
           ELSE /\ infer_pc' = "failed"
                /\ infer_error' = LoadFailedMsg
                /\ infer_dims' = infer_dims
    /\ UNCHANGED <<loss_vars, data_vars, train_vars>>

-----------------------------------------------------------------------------
(* train.rs: the dataset and the batcher called with any index and any Vec *)

NotCalled == [some |-> FALSE, value |-> 0]

\* Largest index asked of get, and longest Vec handed to batch.
MaxIndex == 3
MaxItems == 2

\* dataset.get(index)
DataGet(s, index) ==
    /\ Len(items) < MaxItems
    /\ \E r \in TuningForkDataset_get(Dataset(config, s), index) :
          /\ get_result' = [get_result EXCEPT ![s] = r]
          /\ items' = Append(items, r.value)
    /\ get_index' = [t \in Splits |-> IF t = s THEN index ELSE -1]
    /\ batch_in' = <<>>
    /\ batch_out' = NoTensor
    /\ UNCHANGED <<loss_vars, train_vars, infer_vars>>

\* batcher.batch(items, device)
DataBatch ==
    /\ items # <<>>
    /\ batch_in' = items
    /\ batch_out' = batch(items)
    /\ items' = <<>>
    /\ UNCHANGED <<get_index, get_result>>
    /\ UNCHANGED <<loss_vars, train_vars, infer_vars>>

-----------------------------------------------------------------------------
(* Specifications *)

LossIdle ==
    /\ loss_pc = "idle"
    /\ loss_out = NoLoss
    /\ predicted_dims = <<>>
    /\ target_freqs = <<>>

DataIdle ==
    /\ get_index = [s \in Splits |-> -1]
    /\ get_result = [s \in Splits |-> NotCalled]
    /\ items = <<>>
    /\ batch_in = <<>>
    /\ batch_out = NoTensor

TrainIdle ==
    /\ phase = "Idle"
    /\ epoch = 0
    /\ next_index = [s \in Splits |-> 0]
    /\ buffer = [s \in Splits |-> <<>>]
    /\ queue = [s \in Splits |-> <<>>]
    /\ params = 0
    /\ train_output = NoOutput
    /\ valid_output = NoOutput
    /\ epochs_trained = 0
    /\ epochs_validated = 0
    /\ writes = 0
    /\ error = ""

InferIdle ==
    /\ infer_pc = "start"
    /\ infer_dims = NoDims
    /\ infer_error = ""

\* A training run from any TrainingConfig, and an inference run before it
\* starts or after it has ended: the two are separate invocations of the
\* program.  No record is left by an earlier run.
Init ==
    /\ config \in ConfigDomain
    /\ checkpoint = NoRecord
    /\ TrainIdle
    /\ InferIdle
    /\ LossIdle
    /\ DataIdle

Next ==
    \/ StartTraining
    \/ \E s \in Splits : WorkerGet(s)
    \/ \E s \in Splits : WorkerBatch(s)
    \/ TrainStep
    \/ OptimizerStep
    \/ EndTrainEpoch
    \/ ValidStep
    \/ EndValidEpoch
    \/ SaveModel
    \/ InferRun(TestTargetFreq)

Spec == Init /\ [][Next]_vars

\* One call of tuning_fork_loss on any batch of the input domain.
LossInit ==
    /\ loss_pc = "input"
    /\ loss_out = NoLoss
    /\ \E n \in 1..MaxBatch :
          /\ predicted_dims \in [1..n -> DimsDomain]
          /\ target_freqs \in [1..n -> TargetDomain]
    /\ config = [num_epochs |-> 1, batch_size |-> 1]
    /\ checkpoint = NoRecord
    /\ TrainIdle
    /\ InferIdle
    /\ DataIdle

\* let loss = tuning_fork_loss(predicted_dims, target_freqs)
ComputeLoss ==
    /\ loss_pc = "input"
    /\ loss_out' = tuning_fork_loss(predicted_dims, target_freqs)
    /\ loss_pc' = "done"
    /\ UNCHANGED <<predicted_dims, target_freqs>>
    /\ UNCHANGED <<data_vars, train_vars, infer_vars>>

LossNext == ComputeLoss

LossSpec == LossInit /\ [][LossNext]_vars

\* Values of one coordinate on a bound and one and two steps outside it,
\* each with the base vector they replace the coordinate of.  (The prong
\* diameter stops one step above its maximum: the stiffness of a thicker
\* prong is beyond the integers of the fixed-point model.)
PenaltySweeps ==
    {<<NoPenaltyDims, HANDLE_LENGTH_IDX, {10, 20, 30, 150, 160, 170}>>,
     <<NoPenaltyDims, HANDLE_DIAMETER_IDX, {3, 4, 5, 20, 21, 22}>>,
     <<NoPenaltyDims, PRONG_LENGTH_IDX, {200, 201, 202}>>,
     <<WithPenaltiesDims, PRONG_LENGTH_IDX, {8, 9, 10}>>,
     <<NoPenaltyDims, PRONG_DIAMETER_IDX, {0, 1, 2, 20, 21}>>,
     <<NoPenaltyDims, PRONG_GAP_IDX, {0, 1, 2, 20, 21, 22}>>,
     <<WithPenaltiesDims, PRONG_LENGTH_IDX, {50, 60, 80}>>,
     <<WithPenaltiesDims, HANDLE_LENGTH_IDX, {50, 70, 80}>>}

\* Batches of two examples that differ in one coordinate at most.
PenaltyPairs ==
    UNION {{<<Subst(sw[1], sw[2], x), Subst(sw[1], sw[2], y)>> :
                x \in sw[3], y \in sw[3]} : sw \in PenaltySweeps}

\* One call of tuning_fork_loss on a pair of examples, one coordinate of
\* which sweeps across a bound.
PenaltyInit ==
    /\ loss_pc = "input"
    /\ loss_out = NoLoss
    /\ predicted_dims \in PenaltyPairs
    /\ target_freqs = <<TestTargetFreq, TestTargetFreq>>
    /\ config = [num_epochs |-> 1, batch_size |-> 1]
    /\ checkpoint = NoRecord
    /\ TrainIdle
    /\ InferIdle
    /\ DataIdle

PenaltySpec == PenaltyInit /\ [][LossNext]_vars

\* The dataset of either split asked for any index, the batcher handed any
\* Vec of what was drawn.
DataInit ==
    /\ config \in {c \in ConfigDomain : c.num_epochs = 1 /\ c.batch_size >= 1}
    /\ checkpoint = NoRecord
    /\ DataIdle
    /\ TrainIdle
    /\ InferIdle
    /\ LossIdle

DataNext ==
    \/ \E s \in Splits : \E index \in 0..MaxIndex : DataGet(s, index)
    \/ DataBatch

DataSpec == DataInit /\ [][DataNext]_vars

-----------------------------------------------------------------------------
(* Properties *)

InBounds(x, lo, hi) == lo <= x /\ x <= hi

\* Every dimension of d within its range, and the prong no longer than the handle.
Feasible(d) ==
    /\ InBounds(d[HANDLE_LENGTH_IDX + 1], HANDLE_LENGTH_MIN, HANDLE_LENGTH_MAX)
    /\ InBounds(d[HANDLE_DIAMETER_IDX + 1],
                HANDLE_DIAMETER_MIN, HANDLE_DIAMETER_MAX)
    /\ InBounds(d[PRONG_LENGTH_IDX + 1], PRONG_LENGTH_MIN, PRONG_LENGTH_MAX)
    /\ InBounds(d[PRONG_DIAMETER_IDX + 1],
                PRONG_DIAMETER_MIN, PRONG_DIAMETER_MAX)
    /\ InBounds(d[PRONG_GAP_IDX + 1], PRONG_GAP_MIN, PRONG_GAP_MAX)
    /\ d[PRONG_LENGTH_IDX + 1] <= d[HANDLE_LENGTH_IDX + 1]

Examples == 1..Len(predicted_dims)

AllFeasible == \A i \in Examples : Feasible(predicted_dims[i])

\* C1: for a batch whose every example is within all five ranges and has
\* prong_length <= handle_length, the ratio penalty and the five range
\* penalties are zero and the loss is the mean frequency loss alone.
C1_NoPenaltyWhenFeasible ==
    (loss_pc = "done" /\ AllFeasible) =>
        /\ \A i \in Examples :
              /\ ratio_penalty(predicted_dims)[i] = 0
              /\ prong_diameter_penalty(predicted_dims)[i] = 0
              /\ prong_length_penalty(predicted_dims)[i] = 0
              /\ handle_length_penalty(predicted_dims)[i] = 0
              /\ handle_diameter_penalty(predicted_dims)[i] = 0
              /\ prong_gap_penalty(predicted_dims)[i] = 0
        /\ loss_out =
              mean([i \in Examples |->
                      Norm(frequency_loss(predicted_dims, target_freqs)[i], 0)])

\* A feasible batch of two examples whose loss has been computed and is not zero.
C1_Witness ==
    /\ loss_pc = "done"
    /\ AllFeasible
    /\ Len(predicted_dims) >= 2
    /\ loss_out.whole > 0

SquaredHinge(v) == IF v > 0 THEN v * v ELSE 0

RangeHinge(x, lo, hi) == SquaredHinge(lo - x) + SquaredHinge(x - hi)

\* The closed form of the loss of one example d against target t.
ClosedFormLoss(d, t) ==
    LET hl == d[HANDLE_LENGTH_IDX + 1]
        hd == d[HANDLE_DIAMETER_IDX + 1]
        pl == d[PRONG_LENGTH_IDX + 1]
        pd == d[PRONG_DIAMETER_IDX + 1]
        pg == d[PRONG_GAP_IDX + 1]
    IN  Norm((predicted_freqs(<<d>>)[1] - t) ^ 2,
             (PENALTY_WEIGHT_RATIO * SquaredHinge(pl - hl))
             + (PENALTY_WEIGHT_RANGE
                    * (RangeHinge(pd, PRONG_DIAMETER_MIN, PRONG_DIAMETER_MAX)
                       + RangeHinge(pl, PRONG_LENGTH_MIN, PRONG_LENGTH_MAX)))
             + (PENALTY_WEIGHT_OTHER
                    * (RangeHinge(hl, HANDLE_LENGTH_MIN, HANDLE_LENGTH_MAX)
                       + RangeHinge(hd, HANDLE_DIAMETER_MIN, HANDLE_DIAMETER_MAX)
                       + RangeHinge(pg, PRONG_GAP_MIN, PRONG_GAP_MAX))))

\* Only the prong-longer-than-handle and the prong-diameter-below-minimum
\* constraints are violated by d.
OnlyRatioAndDiameterLow(d) ==
    /\ d[PRONG_LENGTH_IDX + 1] > d[HANDLE_LENGTH_IDX + 1]
    /\ d[PRONG_DIAMETER_IDX + 1] < PRONG_DIAMETER_MIN
    /\ InBounds(d[HANDLE_LENGTH_IDX + 1], HANDLE_LENGTH_MIN, HANDLE_LENGTH_MAX)
    /\ InBounds(d[HANDLE_DIAMETER_IDX + 1],
                HANDLE_DIAMETER_MIN, HANDLE_DIAMETER_MAX)
    /\ InBounds(d[PRONG_LENGTH_IDX + 1], PRONG_LENGTH_MIN, PRONG_LENGTH_MAX)
    /\ InBounds(d[PRONG_GAP_IDX + 1], PRONG_GAP_MIN, PRONG_GAP_MAX)

C3_NonNegativeZeroOnlyIfPerfect ==
    loss_pc = "done" =>
        /\ loss_out.whole >= 0
        /\ loss_out.frac >= 0
        /\ loss_out = ZeroLoss =>
              /\ \A i \in Examples :
                    predicted_freqs(predicted_dims)[i] = target_freqs[i]
              /\ AllFeasible

\* A batch of two examples whose loss is zero.
C3_Witness ==
    /\ loss_pc = "done"
    /\ Len(predicted_dims) >= 2
    /\ loss_out = ZeroLoss

ZeroConfig == config.num_epochs = 0 \/ config.batch_size = 0

C5_CheckpointOnceAfterAllEpochs ==
    /\ writes <= 1
    /\ checkpoint.exists => writes = 1
    /\ writes = 1 =>
          /\ epochs_trained = config.num_epochs
          /\ epochs_validated = config.num_epochs
          /\ phase = "Finished"
    /\ phase = "Failed" => writes = 0 /\ ~checkpoint.exists

\* A run of two epochs that took optimizer steps and wrote its checkpoint.
C5_Witness ==
    /\ writes = 1
    /\ config.num_epochs >= 2
    /\ params >= 2
    /\ checkpoint = Record(params)

\* C6: an inference run started with no record at the path fails with the
\* message to run training first, and reports no dimensions.
C6_InferWithoutCheckpointFails ==
    [][(infer_pc = "start" /\ infer_pc' # "start" /\ ~checkpoint.exists) =>
          /\ infer_pc' = "failed"
          /\ infer_error' =
                "Failed to load model record. Run training first via cargo run --release -- train"
          /\ infer_dims' = NoDims]_vars

\* An inference run has failed for want of a record.
C6_Witness ==
    /\ infer_pc = "failed"
    /\ ~checkpoint.exists
    /\ infer_dims = NoDims

\* C7: every get returns a value, whatever the index, and the value lies
\* within the dataset's [min, max].
C7_GetAlwaysInRange ==
    \A s \in Splits :
        /\ get_index[s] >= 0 => get_result[s].some
        /\ get_result[s].some =>
              InBounds(get_result[s].value,
                       Dataset(config, s).freq_range[1],
                       Dataset(config, s).freq_range[2])

\* A get at an index not below the declared size has returned a value.
C7_Witness ==
    \E s \in Splits :
        /\ get_index[s] >= TuningForkDataset_len(Dataset(config, s))
        /\ get_result[s].some
        /\ Len(items) >= 2

BothDrawn == get_result["train"].some /\ get_result["valid"].some

C9_BatchPreservesOrder ==
    batch_in # <<>> =>
        /\ batch_out.shape = <<Len(batch_in), 1>>
        /\ Len(batch_out.data) = Len(batch_in)
        /\ \A i \in 1..Len(batch_in) : At(batch_out, i - 1, 0) = batch_in[i]

\* Two different items have been batched.
C9_Witness ==
    /\ Len(batch_in) >= 2
    /\ batch_in[1] # batch_in[2]
    /\ batch_out # NoTensor

\* C10: a validation step leaves params as they are, and params change only
\* by the optimizer step that consumes a training step's output.
C10_ValidationKeepsParams ==
    [][/\ Len(queue'["valid"]) < Len(queue["valid"]) => params' = params
       /\ valid_output' # valid_output => params' = params
       /\ params' # params =>
             /\ phase = "Training"
             /\ train_output # NoOutput
             /\ train_output' = NoOutput]_vars

\* A validation step has run on parameters that training steps had updated.
C10_Witness ==
    /\ phase = "Validating"
    /\ valid_output # NoOutput
    /\ params >= 2

\* How far x lies below lo, and how far above hi.
Below(x, lo) == IF x < lo THEN lo - x ELSE 0

Above(x, hi) == IF x > hi THEN x - hi ELSE 0

\* Penalty pen of a batch is zero where the coordinate idx is within
\* [lo, hi], and between two examples the one at least as far outside on
\* both sides has at least the penalty of the other.
RangeMonotone(pen, idx, lo, hi) ==
    /\ \A i \in Examples :
          InBounds(predicted_dims[i][idx + 1], lo, hi) => pen[i] = 0
    /\ \A i, j \in Examples :
          LET x == predicted_dims[i][idx + 1]
              y == predicted_dims[j][idx + 1]
          IN  (Below(x, lo) <= Below(y, lo) /\ Above(x, hi) <= Above(y, hi))
                  => pen[i] <= pen[j]

\* The same of the ratio penalty and the excess of prong over handle length.
RatioMonotone(pen) ==
    /\ \A i \in Examples :
          predicted_dims[i][PRONG_LENGTH_IDX + 1]
              <= predicted_dims[i][HANDLE_LENGTH_IDX + 1] => pen[i] = 0
    /\ \A i, j \in Examples :
          LET ex(k) == predicted_dims[k][PRONG_LENGTH_IDX + 1]
                           - predicted_dims[k][HANDLE_LENGTH_IDX + 1]
          IN  (ex(i) > 0 /\ ex(i) <= ex(j)) => pen[i] <= pen[j]

\* C11: each of the five range penalties and the ratio penalty is zero where
\* its constraint is satisfied and never decreases as the value moves
\* further below the minimum, further above the maximum, or the prong
\* further above the handle length.
C11_PenaltiesMonotone ==
    loss_pc = "done" =>
        /\ RangeMonotone(prong_diameter_penalty(predicted_dims),
                         PRONG_DIAMETER_IDX,
                         PRONG_DIAMETER_MIN, PRONG_DIAMETER_MAX)
        /\ RangeMonotone(prong_length_penalty(predicted_dims),
                         PRONG_LENGTH_IDX, PRONG_LENGTH_MIN, PRONG_LENGTH_MAX)
        /\ RangeMonotone(handle_length_penalty(predicted_dims),
                         HANDLE_LENGTH_IDX,
                         HANDLE_LENGTH_MIN, HANDLE_LENGTH_MAX)
        /\ RangeMonotone(handle_diameter_penalty(predicted_dims),
                         HANDLE_DIAMETER_IDX,
                         HANDLE_DIAMETER_MIN, HANDLE_DIAMETER_MAX)
        /\ RangeMonotone(prong_gap_penalty(predicted_dims),
                         PRONG_GAP_IDX, PRONG_GAP_MIN, PRONG_GAP_MAX)
        /\ RatioMonotone(ratio_penalty(predicted_dims))

\* The loss of two examples has been computed whose prongs are both longer
\* than their handles, the second by more and at the higher ratio penalty,
\* both lengths within their ranges.
C11_Witness ==
    /\ loss_pc = "done"
    /\ Len(predicted_dims) = 2
    /\ ratio_penalty(predicted_dims)[1] > 0
    /\ ratio_penalty(predicted_dims)[2] > ratio_penalty(predicted_dims)[1]
    /\ prong_length_penalty(predicted_dims) = <<0, 0>>
    /\ handle_length_penalty(predicted_dims) = <<0, 0>>

\* A training step has computed its gradients and the optimizer has not yet
\* applied them.
StepInProgress == train_output # NoOutput

\* C12: while the data workers get and batch items, a training step computes
\* its loss from its own forward pass on the batch it took and its gradients
\* at the parameters of that pass, and until the optimizer has applied them
\* no other training step starts, no validation step runs, the epoch does
\* not end and the parameters stay as they are; parameters change only by
\* the optimizer step that ends a step in progress.
C12_TrainingStepNotInterleaved ==
    [][/\ (~StepInProgress /\ train_output' # NoOutput) =>
             /\ phase = "Training"
             /\ queue["train"] # <<>>
             /\ \E dims \in forward(params, Head(queue["train"])) :
                   train_output'.loss =
                       tuning_fork_loss(dims, Column(Head(queue["train"])))
             /\ train_output'.grads = params
             /\ params' = params
       /\ StepInProgress =>
             /\ train_output' \in {train_output, NoOutput}
             /\ valid_output' = valid_output
             /\ phase' = phase
             /\ train_output' = train_output => params' = params
             /\ train_output' = NoOutput =>
                   /\ train_output.grads = params
                   /\ params' # params
       /\ params' # params => StepInProgress /\ train_output' = NoOutput]_vars

\* A training step on parameters already updated is in progress while the
\* workers have the next batch ready.
C12_Witness ==
    /\ StepInProgress
    /\ params >= 1
    /\ train_output.grads = params
    /\ queue["train"] # <<>>

=============================================================================
